---- MODULE Spec2Model ----
(***************************************************************************)
(* Model of the yarn-changeset-action: the entry script (one invocation of *)
(* the action), runVersion (the release pull request), runPublish and      *)
(* createRelease (publishing and GitHub releases), readChangesetState and  *)
(* getVersionPrBody (the pull request body under a character budget).      *)
(*                                                                         *)
(* External tools (git, yarn, the GitHub API, the file system) are the     *)
(* environment: each call either throws or returns, and what it returns is *)
(* drawn from a small set at the moment the code reads it.                 *)
(***************************************************************************)
EXTENDS Integers, Sequences, FiniteSets, TLC

(* ------------------------------ bounds -------------------------------- *)
MaxChangesets == 2      \* changeset files on disk
MaxOpenPRs == 2         \* items the PR search can return
MaxLines == 2           \* lines of `yarn ... npm publish` output
MaxPkgs == 2            \* changed packages listed in a PR body
MaxContentUnits == 2    \* changelog content length, in units of ContentUnit
MaxBudgetUnits == 9     \* prBodyMaxCharacters, in units of BudgetUnit

ContentUnit == 150
BudgetUnit == 100

(* ----------------------- program constants ---------------------------- *)
MAX_CHARACTERS_PER_MESSAGE == 60000

\* lengths (UTF-16 code units) of the literals of getVersionPrBody
LenHeaderAuto == 328     \* messageHeader without ${branch}, autoPublish
LenHeaderManual == 402   \* messageHeader without ${branch}, no autoPublish
LenPrestate == 185       \* messagePrestate without the two ${branch}
LenReleasesHeading == 10 \* "# Releases"
LenOmittedChangelog == 120
LenOmittedAll == 102

(* ------------------------------ helpers ------------------------------- *)
Range(s) == {s[i] : i \in 1..Len(s)}

RECURSIVE SeqSum(_)
SeqSum(s) == IF s = <<>> THEN 0 ELSE Head(s) + SeqSum(Tail(s))

RECURSIVE FilterSeq(_, _)
\* Array.prototype.filter with the predicate "x is not in drop"
FilterSeq(s, drop) ==
    IF s = <<>> THEN <<>>
    ELSE IF Head(s).id \in drop THEN FilterSeq(Tail(s), drop)
         ELSE <<Head(s)>> \o FilterSeq(Tail(s), drop)

SeqsUpTo(S, n) == UNION {[1..k -> S] : k \in 0..n}

(* ------------------------------- state -------------------------------- *)
VARIABLES
    pc,            \* position of the invocation
    githubToken,   \* process.env.GITHUB_TOKEN is set
    npmToken,      \* process.env.NPM_TOKEN is set
    setupGitUser, autoPublish, dedupe, createGithubReleases,  \* inputs, once read
    disk,          \* the .changeset directory, where a specification fixes it at the start
    changesetState, \* what readChangesetState returns for the .changeset on disk
    changesets,    \* the changesets main read
    preState,      \* the preState runVersion read
    clean,         \* what gitUtils.checkIfClean answered: "unknown", "clean", "dirty"
    failed,        \* core.setFailed was called
    outputs,       \* core.setOutput values
    log,           \* effects performed, in order
    search,        \* the PR search: "none", "sent", "answered", "rejected", "read"
    items,         \* the search result's items (PR numbers)
    openPRs,       \* open PRs of the head/base pair on the host, in search order
    hostSeen,      \* the host has been asked: openPRs is drawn at the first answer
    prCalls,       \* calls of pulls.create / pulls.update
    returned,      \* the value runVersion / runPublish returned
    stdout,        \* output of the publish command
    pkgVersion,    \* packageJson.version of each workspace package
    changelog,     \* CHANGELOG.md of each workspace package, once read
    publishedPackages, \* runPublish's list
    tasks,         \* state of each createRelease call of Promise.all
    releases,      \* calls of repos.createRelease
    bodyIn,        \* arguments of getVersionPrBody
    bodyOut        \* its result

vars == <<pc, githubToken, npmToken, setupGitUser, autoPublish, dedupe,
          createGithubReleases, disk, changesetState, changesets, preState, clean, failed,
          outputs, log, search, items, openPRs, hostSeen, prCalls, returned, stdout, pkgVersion,
          changelog, publishedPackages, tasks, releases, bodyIn, bodyOut>>


(* ------------------------- readChangesetState ------------------------- *)
Ids == 1..MaxChangesets

\* what @changesets/read and @changesets/pre find on disk; mode "none" is an
\* absent pre.json (readPreState returns undefined)
NoPreState == [mode |-> "none", changesets |-> {}]
PreStates == {NoPreState} \cup [mode : {"pre", "exit"}, changesets : SUBSET Ids]
DiskChangesets ==
    UNION {{[i \in 1..n |-> [id |-> i, releases |-> r[i]]] : r \in [1..n -> 0..1]}
           : n \in 0..MaxChangesets}
Disks == [changesets : DiskChangesets, preState : PreStates]

\* the directory of a specification that lets ReadState draw what it reads
NoDisk == [changesets |-> <<>>, preState |-> NoPreState]

\* a variant that takes any pre.json for pre mode
readChangesetStateAnyMode(d) ==
    LET isInPreMode == d.preState.mode # "none"
    IN  [preState   |-> IF isInPreMode THEN d.preState ELSE NoPreState,
         changesets |-> IF isInPreMode
                        THEN FilterSeq(d.changesets, d.preState.changesets)
                        ELSE d.changesets]

readChangesetState(d) ==
    LET isInPreMode == d.preState.mode # "none" /\ d.preState.mode = "pre"
    IN  [preState   |-> IF isInPreMode THEN d.preState ELSE NoPreState,
         changesets |-> IF isInPreMode
                        THEN FilterSeq(d.changesets, d.preState.changesets)
                        ELSE d.changesets]

(* --------------------------- getVersionPrBody ------------------------- *)
\* A message is the array handed to join("\n"): a sequence of parts, each
\* with its length in characters.
Part(kind, pkg, len) == [kind |-> kind, pkg |-> pkg, len |-> len]

RECURSIVE PartsLen(_)
PartsLen(parts) == IF parts = <<>> THEN 0 ELSE Head(parts).len + PartsLen(Tail(parts))

\* length of parts.join("\n")
JoinLen(parts) == IF parts = <<>> THEN 0 ELSE PartsLen(parts) + Len(parts) - 1

messageHeader(auto, branchLen) ==
    Part("messageHeader", "",
         (IF auto THEN LenHeaderAuto ELSE LenHeaderManual) + branchLen)

messagePrestate(pre, branchLen) ==
    Part("messagePrestate", "", IF pre THEN LenPrestate + 2 * branchLen ELSE 0)

messageReleasesHeading == Part("messageReleasesHeading", "", LenReleasesHeading)

\* `${info.header}\n\n${info.content}`
WithContent(info) ==
    [i \in 1..Len(info) |->
        Part("headerAndContent", info[i].name, info[i].headerLen + 2 + info[i].contentLen)]

\* `${info.header}\n\n`
HeaderOnly(info) ==
    [i \in 1..Len(info) |-> Part("headerOnly", info[i].name, info[i].headerLen + 2)]

FullMessage(auto, pre, info, branchLen) ==
    <<messageHeader(auto, branchLen), messagePrestate(pre, branchLen),
      messageReleasesHeading>> \o WithContent(info)

HeadersMessage(auto, pre, info, branchLen) ==
    <<messageHeader(auto, branchLen), messagePrestate(pre, branchLen),
      messageReleasesHeading, Part("omittedChangelog", "", LenOmittedChangelog)>>
    \o HeaderOnly(info)

NoticeMessage(auto, pre, branchLen) ==
    <<messageHeader(auto, branchLen), messagePrestate(pre, branchLen),
      messageReleasesHeading, Part("omittedAll", "", LenOmittedAll)>>

\* a variant without the second size check
getVersionPrBodyOneCheck(auto, pre, info, prBodyMaxCharacters, branchLen) ==
    LET full == FullMessage(auto, pre, info, branchLen)
    IN  IF JoinLen(full) > prBodyMaxCharacters
        THEN HeadersMessage(auto, pre, info, branchLen)
        ELSE full

\* a variant that drops everything as soon as the full message is too long
getVersionPrBodyNoHeadersTier(auto, pre, info, prBodyMaxCharacters, branchLen) ==
    LET full == FullMessage(auto, pre, info, branchLen)
    IN  IF JoinLen(full) > prBodyMaxCharacters
        THEN NoticeMessage(auto, pre, branchLen)
        ELSE full
getVersionPrBody(auto, pre, info, prBodyMaxCharacters, branchLen) ==
    LET full  == FullMessage(auto, pre, info, branchLen)
        first == IF JoinLen(full) > prBodyMaxCharacters
                 THEN HeadersMessage(auto, pre, info, branchLen)
                 ELSE full
    IN  IF JoinLen(first) > prBodyMaxCharacters
        THEN NoticeMessage(auto, pre, branchLen)
        ELSE first

(* ------------------------ publish output parsing ---------------------- *)
\* A line of output is a sequence of tokens: "[" and "]:" are the brackets
\* of the workspace prefix, "PUB" is the text "Package archive published",
\* anything else is text without brackets (a package name, or "txt").
Packages == {"a", "b"}

\* publishedPattern: /\[(?<packageName>[^\[]+)\]:.*Package archive published/
\* the tokens captured as packageName, or <<>> when the line does not match
Ends(line, i) ==
    {j \in (i + 2)..Len(line) :
        /\ line[j] = "]:"
        /\ \A k \in (i + 1)..(j - 1) : line[k] # "["
        /\ \E k \in (j + 1)..Len(line) : line[k] = "PUB"}

Starts(line) == {i \in 1..Len(line) : line[i] = "[" /\ Ends(line, i) # {}}

Min(S) == CHOOSE x \in S : \A y \in S : x <= y
Max(S) == CHOOSE x \in S : \A y \in S : x >= y

matchPackageName(line) ==
    IF Starts(line) = {} THEN <<>>
    ELSE LET i == Min(Starts(line))
             j == Max(Ends(line, i))     \* [^\[]+ is greedy
         IN  SubSeq(line, i + 1, j - 1)

RECURSIVE collectPublished(_)
\* the loop over lines: packages.find by name, push when found
collectPublished(lines) ==
    IF lines = <<>> THEN <<>>
    ELSE LET packageName == matchPackageName(Head(lines))
             found == {p \in Packages : packageName = <<p>>}
         IN  (IF found # {} THEN <<CHOOSE p \in found : TRUE>> ELSE <<>>)
             \o collectPublished(Tail(lines))

\* version strings, as characters; includes("-") decides prerelease
Versions == {<<"1", ".", "0">>, <<"1", ".", "1", "-", "rc">>}
includes(str, ch) == \E i \in 1..Len(str) : str[i] = ch

tagName(p, version) == <<p, "@", version>>


\* utils.getChangelogEntry: the section of the changelog under the heading of
\* `version`, or undefined when there is no such heading
getChangelogEntry(file, version) ==
    [found |-> version \in file.versions, version |-> version]

ChangelogFiles ==
    {[read |-> TRUE, exists |-> FALSE, versions |-> {}]}
    \cup [read : {TRUE}, exists : {TRUE}, versions : SUBSET Versions]
Unread == [read |-> FALSE, exists |-> FALSE, versions |-> {}]

LineMenu ==
    { <<"[", "a", "]:", "PUB">>,
      <<"[", "b", "]:", "txt", "PUB">>,
      <<"[", "a", "]:", "txt">>,
      <<"[", "c", "]:", "PUB">>,
      <<"txt", "PUB", "[", "a", "]:">> }
Stdouts == SeqsUpTo(LineMenu, MaxLines)

(* ------------------------------ the host ------------------------------ *)
branch == "main"
versionBranch == <<"changeset-release/", branch>>
BranchLen == Len(<<"m", "a", "i", "n">>)

OpenPRLists == {[i \in 1..n |-> n + 1 - i] : n \in 0..MaxOpenPRs}
\* the number the host gives to a pull request it creates
NewPrNumber(prs) == Max(Range(prs) \cup {0}) + 1

\* changed packages of a version bump, sorted by sortTheThings
PkgInfo(name, units) == [name |-> name, headerLen |-> 10, contentLen |-> units * ContentUnit]

(* ------------------------------ initial ------------------------------- *)
NoOutputs ==
    [published |-> "unset",
     publishedPackages |-> [set |-> FALSE, json |-> <<>>],
     hasChangesets |-> "unset",
     pullRequestNumber |-> [set |-> FALSE, str |-> 0]]
NoReturn == [kind |-> "none", pullRequestNumber |-> 0, published |-> FALSE,
             publishedPackages |-> <<>>]
NoBodyIn == [called |-> FALSE, autoPublish |-> FALSE, pre |-> FALSE, info |-> <<>>,
             prBodyMaxCharacters |-> 0, branchLen |-> 0]

InitCommon ==
    /\ setupGitUser = FALSE /\ autoPublish = FALSE /\ dedupe = FALSE
    /\ createGithubReleases = FALSE
    /\ changesetState = [preState |-> NoPreState, changesets |-> <<>>]
    /\ changesets = <<>>
    /\ preState = NoPreState
    /\ clean = "unknown"
    /\ failed = FALSE
    /\ outputs = NoOutputs
    /\ log = <<>>
    /\ search = "none"
    /\ items = <<>>
    /\ openPRs = <<>>
    /\ hostSeen = FALSE
    /\ prCalls = <<>>
    /\ returned = NoReturn
    /\ stdout = <<>>
    /\ pkgVersion = [p \in Packages |-> <<>>]
    /\ changelog = [p \in Packages |-> Unread]
    /\ publishedPackages = <<>>
    /\ tasks = <<>>
    /\ releases = <<>>
    /\ bodyOut = <<>>

Init ==
    /\ pc = "start"
    /\ githubToken \in BOOLEAN
    /\ npmToken \in BOOLEAN
    /\ disk = NoDisk
    /\ bodyIn = NoBodyIn
    /\ InitCommon

inputsV == <<githubToken, npmToken, setupGitUser, autoPublish, dedupe, createGithubReleases>>
diskV == <<disk, changesetState, changesets, preState, clean>>
hostV == <<search, items, openPRs, hostSeen, prCalls>>
pubV == <<stdout, pkgVersion, changelog, publishedPackages, tasks, releases>>
bodyV == <<bodyIn, bodyOut>>

\* the catch of the entry script: console.error, core.setFailed(err.message)
Throw == failed' = TRUE /\ pc' = "done"

\* an awaited external call that has one effect: it returns, or it throws
Call(from, to, effect) ==
    /\ pc = from
    /\ \E ok \in BOOLEAN :
          IF ok THEN /\ pc' = to
                     /\ log' = Append(log, effect)
                     /\ failed' = failed
                ELSE Throw /\ log' = log

\* an awaited external call that only reads
Query(from, to) ==
    /\ pc = from
    /\ \E ok \in BOOLEAN :
          IF ok THEN pc' = to /\ failed' = failed ELSE Throw


(* --------------------------- the entry script ------------------------- *)
\* a variant that marks the failure and goes on
CheckGithubTokenNoReturn ==
    /\ pc = "start"
    /\ failed' = ~githubToken
    /\ pc' = "m_setupUser"
    /\ UNCHANGED <<inputsV, diskV, hostV, pubV, bodyV, outputs, log, returned>>
\* if (!githubToken) { core.setFailed(...); return; }
CheckGithubToken ==
    /\ pc = "start"
    /\ IF ~githubToken
       THEN failed' = TRUE /\ pc' = "done"
       ELSE failed' = failed /\ pc' = "m_setupUser"
    /\ UNCHANGED <<inputsV, diskV, hostV, pubV, bodyV, outputs, log, returned>>

\* if (setupGitUser) await gitUtils.setupUser()
SetupUser ==
    /\ pc = "m_setupUser"
    /\ \E v \in BOOLEAN :
          /\ setupGitUser' = v
          /\ IF v
             THEN \E ok \in BOOLEAN :
                     IF ok THEN /\ log' = Append(log, "setupUser")
                                /\ pc' = "m_netrc" /\ failed' = failed
                           ELSE Throw /\ log' = log
             ELSE pc' = "m_netrc" /\ log' = log /\ failed' = failed
    /\ UNCHANGED <<githubToken, npmToken, autoPublish, dedupe, createGithubReleases,
                   diskV, hostV, pubV, bodyV, outputs, returned>>

\* await fs.writeFile(`${HOME}/.netrc`, ...)
WriteNetrc ==
    /\ Call("m_netrc", "m_read", "netrc")
    /\ UNCHANGED <<inputsV, diskV, hostV, pubV, bodyV, outputs, returned>>

\* let { changesets } = await readChangesetState(resolvedCwd)
ReadStateFrom(d) ==
    /\ pc = "m_read"
    /\ \E ok \in BOOLEAN :
          IF ok THEN /\ changesetState' = readChangesetState(d)
                     /\ changesets' = readChangesetState(d).changesets
                     /\ pc' = "m_decide" /\ failed' = failed
                ELSE Throw /\ UNCHANGED <<changesetState, changesets>>
    /\ UNCHANGED <<inputsV, disk, preState, clean, hostV, pubV, bodyV, outputs, log, returned>>

\* the read, of whatever the directory holds when the invocation gets there
ReadState == \E d \in Disks : ReadStateFrom(d)

\* the read, of the directory fixed at the start
ReadDisk == ReadStateFrom(disk)

hasNonEmptyChangesets(cs) == \E i \in 1..Len(cs) : cs[i].releases > 0


\* a variant that treats changesets without releases as no changesets
RouteEmptyAsNone(cs, auto, npm) ==
    IF hasNonEmptyChangesets(cs) THEN "runVersion"
    ELSE IF auto
         THEN IF ~npm THEN "noNpmToken" ELSE "runPublish"
         ELSE "nothing"
\* the branch the entry script takes once the changesets are read
Route(cs, auto, npm) ==
    LET hasChangesets == Len(cs) # 0
    IN  IF hasChangesets
        THEN IF hasNonEmptyChangesets(cs) THEN "runVersion" ELSE "allEmpty"
        ELSE IF auto
             THEN IF ~npm THEN "noNpmToken" ELSE "runPublish"
             ELSE "nothing"

\* the same branch in src/index.ts
RouteIndex(cs, auto, npm) ==
    LET hasChangesets == Len(cs) # 0
    IN  IF hasChangesets
        THEN "runVersion"
        ELSE IF auto
             THEN IF ~npm THEN "noNpmToken" ELSE "runPublish"
             ELSE "nothing"

String(b) == IF b THEN "true" ELSE "false"

\* the inputs are read, the outputs get their defaults, the branch r is taken
\* (a: autoPublish, d: dedupe, g: createGithubReleases)
DecideTo(a, d, g, r) ==
    /\ pc = "m_decide"
    /\ autoPublish' = a
    /\ dedupe' = d
    /\ outputs' = [outputs EXCEPT !.published = "false",
                                  !.publishedPackages = [set |-> TRUE, json |-> <<>>],
                                  !.hasChangesets = String(Len(changesets) # 0)]
    /\ createGithubReleases' = IF r = "runPublish" THEN g ELSE createGithubReleases
    /\ r # "runPublish" => g = FALSE   \* createGithubReleases is read for runPublish only
    /\ r # "runVersion" => d = FALSE   \* dedupe is read by runVersion only
    /\ pc' = CASE r = "runVersion" -> "v_readState"
               [] r = "runPublish" -> "p_getPackages"
               [] OTHER -> "done"
    /\ failed' = (r = "noNpmToken")
    /\ UNCHANGED <<githubToken, npmToken, setupGitUser, diskV, hostV, pubV, bodyV,
                   log, returned>>

Decide ==
    \E a \in BOOLEAN, d \in BOOLEAN, g \in BOOLEAN :
        DecideTo(a, d, g, Route(changesets, a, npmToken))

DecideIndex ==
    \E a \in BOOLEAN, d \in BOOLEAN, g \in BOOLEAN :
        DecideTo(a, d, g, RouteIndex(changesets, a, npmToken))

\* core.setOutput("pullRequestNumber", String(pullRequestNumber)); return
VersionReturned ==
    /\ pc = "m_afterVersion"
    /\ outputs' = [outputs EXCEPT !.pullRequestNumber =
                       [set |-> TRUE, str |-> returned.pullRequestNumber]]
    /\ pc' = "done"
    /\ UNCHANGED <<inputsV, diskV, hostV, pubV, bodyV, failed, log, returned>>

\* src/index.ts drops the result of runVersion
VersionReturnedIndex ==
    /\ pc = "m_afterVersion"
    /\ pc' = "done"
    /\ UNCHANGED <<inputsV, diskV, hostV, pubV, bodyV, failed, log, returned, outputs>>

\* if (result.published) { setOutput("published", "true"); setOutput("publishedPackages", ...) }
PublishReturned ==
    /\ pc = "m_afterPublish"
    /\ outputs' = IF returned.published
                  THEN [outputs EXCEPT !.published = "true",
                                       !.publishedPackages =
                                           [set |-> TRUE, json |-> returned.publishedPackages]]
                  ELSE outputs
    /\ pc' = "done"
    /\ UNCHANGED <<inputsV, diskV, hostV, pubV, bodyV, failed, log, returned>>


(* ------------------------------ runVersion ---------------------------- *)
\* let { preState } = await readChangesetState(cwd): nothing has touched
\* .changeset since the entry script read it, so the call returns the same
VReadState ==
    /\ pc = "v_readState"
    /\ \E ok \in BOOLEAN :
          IF ok THEN /\ preState' = changesetState.preState
                     /\ pc' = "v_switch" /\ failed' = failed
                ELSE Throw /\ preState' = preState
    /\ UNCHANGED <<inputsV, disk, changesetState, changesets, clean, hostV, pubV, bodyV, outputs,
                   log, returned>>

\* await gitUtils.switchToMaybeExistingBranch(versionBranch)
Switch ==
    /\ Call("v_switch", "v_reset", "switch")
    /\ UNCHANGED <<inputsV, diskV, hostV, pubV, bodyV, outputs, returned>>

\* await gitUtils.reset(github.context.sha)
Reset ==
    /\ Call("v_reset", "v_versions", "reset")
    /\ UNCHANGED <<inputsV, diskV, hostV, pubV, bodyV, outputs, returned>>

\* getVersionsByDirectory, then `yarn changeset --version` (exitCode !== 0 throws)
ChangesetVersion ==
    /\ Query("v_versions", "v_bump")
    /\ UNCHANGED <<inputsV, diskV, hostV, pubV, bodyV, outputs, log, returned>>

\* await exec("yarn", ["changeset", cmd])
Bump ==
    /\ Call("v_bump", "v_install", "version")
    /\ UNCHANGED <<inputsV, diskV, hostV, pubV, bodyV, outputs, returned>>

\* await exec("yarn", ["install", "--mode=update-lockfile", "--no-immutable"])
Install ==
    /\ Call("v_install", "v_dedupe", "install")
    /\ UNCHANGED <<inputsV, diskV, hostV, pubV, bodyV, outputs, returned>>

\* a variant that runs `yarn dedupe` whatever the option says
DedupeAlways ==
    /\ Call("v_dedupe", "v_search", "dedupe")
    /\ UNCHANGED <<inputsV, diskV, hostV, pubV, bodyV, outputs, returned>>
\* if (dedupe) await exec("yarn", ["dedupe"])
Dedupe ==
    /\ IF dedupe
       THEN Call("v_dedupe", "v_search", "dedupe")
       ELSE pc = "v_dedupe" /\ pc' = "v_search" /\ UNCHANGED <<log, failed>>
    /\ UNCHANGED <<inputsV, diskV, hostV, pubV, bodyV, outputs, returned>>

\* searchResultPromise = octokit.rest.search.issuesAndPullRequests(...): the
\* request is sent here; then await getChangedPackages(...), and the reads of
\* the changelogs are started
SendSearch ==
    /\ pc = "v_search"
    /\ search' = "sent"
    /\ log' = Append(log, "search")
    /\ \E ok \in BOOLEAN :
          IF ok THEN pc' = "v_clean" /\ failed' = failed ELSE Throw
    /\ UNCHANGED <<inputsV, diskV, items, openPRs, hostSeen, prCalls, pubV, bodyV, outputs,
                   returned>>

\* the host answers the search with the open pull requests of the pair (they
\* exist on the host from the start; the model draws them at the first answer)
SearchAnswers ==
    /\ search = "sent"
    /\ \E ok \in BOOLEAN, prs \in OpenPRLists :
          IF ok THEN /\ hostSeen => prs = openPRs
                     /\ search' = "answered" /\ items' = prs
                     /\ openPRs' = prs /\ hostSeen' = TRUE
                ELSE /\ prs = <<>>
                     /\ search' = "rejected" /\ UNCHANGED <<items, openPRs, hostSeen>>
    /\ UNCHANGED <<inputsV, diskV, prCalls, pubV, bodyV, outputs, returned,
                   pc, failed, log>>

\* if (!(await gitUtils.checkIfClean())) await gitUtils.commitAll(...)
Commit ==
    /\ pc = "v_clean"
    /\ \E checked \in BOOLEAN, c \in BOOLEAN :
          IF ~checked THEN Throw /\ log' = log /\ clean' = clean /\ c = TRUE
          ELSE IF c THEN /\ clean' = "clean"
                         /\ pc' = "v_push" /\ log' = log /\ failed' = failed
          ELSE /\ clean' = "dirty"
               /\ \E ok \in BOOLEAN :
                     IF ok THEN /\ pc' = "v_push" /\ log' = Append(log, "commit")
                                /\ failed' = failed
                           ELSE Throw /\ log' = log
    /\ UNCHANGED <<inputsV, disk, changesetState, changesets, preState, hostV, pubV, bodyV,
                   outputs, returned>>

\* a variant that goes on to the search result without pushing
PushSkipped ==
    /\ pc = "v_push"
    /\ pc' = "v_await"
    /\ UNCHANGED <<inputsV, diskV, hostV, pubV, bodyV, outputs, returned, log, failed>>
\* await gitUtils.push(versionBranch, { force: true })
Push ==
    /\ Call("v_push", "v_await", "push")
    /\ UNCHANGED <<inputsV, diskV, hostV, pubV, bodyV, outputs, returned>>

\* let searchResult = await searchResultPromise
AwaitSearch ==
    /\ pc = "v_await"
    /\ search \in {"answered", "rejected"}
    /\ IF search = "answered"
       THEN search' = "read" /\ pc' = "v_body" /\ failed' = failed
       ELSE search' = search /\ Throw
    /\ UNCHANGED <<inputsV, diskV, items, openPRs, hostSeen, prCalls, pubV, bodyV, outputs,
                   log, returned>>

PkgNames == <<"a", "b", "c", "d">>
\* the changed packages a version bump can leave, sorted
ChangedInfos == {[i \in 1..n |-> PkgInfo(PkgNames[i], 1)] : n \in 0..MaxPkgs}

\* await changedPackagesInfoPromises, filter, sort; prBody = getVersionPrBody(...)
Body ==
    /\ pc = "v_body"
    /\ \E ok \in BOOLEAN, info \in ChangedInfos :
          IF ok
          THEN /\ bodyIn' = [called |-> TRUE, autoPublish |-> autoPublish,
                             pre |-> preState.mode # "none", info |-> info,
                             prBodyMaxCharacters |-> MAX_CHARACTERS_PER_MESSAGE,
                             branchLen |-> BranchLen]
               /\ bodyOut' = getVersionPrBody(autoPublish, preState.mode # "none", info,
                                              MAX_CHARACTERS_PER_MESSAGE, BranchLen)
               /\ pc' = "v_pr" /\ failed' = failed
          ELSE /\ info = <<>> /\ Throw /\ UNCHANGED bodyV
    /\ UNCHANGED <<inputsV, diskV, hostV, pubV, outputs, log, returned>>


\* a variant that never looks at the search result
PrActionAlwaysCreate(found) == "create"
\* a variant that still creates when one pull request is open
PrActionUnlessSeveral(found) == IF Len(found) <= 1 THEN "create" ELSE "update"
\* if (searchResult.data.items.length === 0) create, else update the first item
PrAction(found) == IF Len(found) = 0 THEN "create" ELSE "update"

\* `${prTitle}${!!preState ? ` (${preState.tag})` : ""}`
finalPrTitle(pre) == [title |-> "Version Packages", tag |-> pre.mode # "none"]

CreateOrUpdate ==
    /\ pc = "v_pr"
    /\ \E ok \in BOOLEAN :
          IF ~ok THEN Throw /\ UNCHANGED <<prCalls, openPRs, returned, log>>
          ELSE LET op == PrAction(items)
                   number == IF op = "create" THEN NewPrNumber(openPRs) ELSE items[1]
               IN  /\ prCalls' = Append(prCalls,
                          [op |-> op, number |-> number,
                           head |-> IF op = "create" THEN versionBranch ELSE <<>>,
                           base |-> IF op = "create" THEN branch ELSE "",
                           title |-> finalPrTitle(preState), body |-> bodyOut])
                   /\ openPRs' = IF op = "create" THEN <<number>> \o openPRs ELSE openPRs
                   /\ returned' = [NoReturn EXCEPT !.kind = "version",
                                                   !.pullRequestNumber = number]
                   /\ log' = Append(log, op)
                   /\ pc' = "m_afterVersion" /\ failed' = failed
    /\ UNCHANGED <<inputsV, diskV, search, items, hostSeen, pubV, bodyV, outputs>>


(* ------------------------------ runPublish ---------------------------- *)
\* let { tool } = await getPackages(cwd); only yarn / root is supported
GetTool ==
    /\ Query("p_getPackages", "p_config")
    /\ UNCHANGED <<inputsV, diskV, hostV, pubV, bodyV, outputs, log, returned>>

\* await exec("yarn", ["config", "set", "npmAuthToken", npmToken])
YarnConfig ==
    /\ Call("p_config", "p_yarnVersion", "yarnConfig")
    /\ UNCHANGED <<inputsV, diskV, hostV, pubV, bodyV, outputs, returned>>

\* yarn --version (exitCode !== 0 throws)
YarnVersion ==
    /\ Query("p_yarnVersion", "p_publish")
    /\ UNCHANGED <<inputsV, diskV, hostV, pubV, bodyV, outputs, log, returned>>

\* yarn workspaces foreach ... npm publish --tolerate-republish; a non-zero
\* exit code throws, whatever was published before
Publish ==
    /\ pc = "p_publish"
    /\ \E out \in Stdouts, ok \in BOOLEAN :
          /\ stdout' = out
          /\ log' = Append(log, "publish")
          /\ IF ok THEN pc' = "p_parse" /\ failed' = failed ELSE Throw
    /\ UNCHANGED <<inputsV, diskV, hostV, pkgVersion, changelog, publishedPackages,
                   tasks, releases, bodyV, outputs, returned>>

\* let { packages } = await getPackages(cwd); the loop over the lines; the
\* createRelease calls of Promise.all are started
ParseOutput ==
    /\ pc = "p_parse"
    /\ \E ok \in BOOLEAN, v \in [Packages -> Versions] :
          \* only the versions of the published packages are read
          /\ \A q \in Packages :
                (~ok \/ q \notin Range(collectPublished(stdout))) => v[q] = <<"1", ".", "0">>
          /\ IF ok
             THEN /\ pkgVersion' = v
                  /\ publishedPackages' = collectPublished(stdout)
                  /\ tasks' = IF createGithubReleases
                              THEN [i \in 1..Len(collectPublished(stdout)) |-> "pending"]
                              ELSE <<>>
                  /\ pc' = "p_releases" /\ failed' = failed
             ELSE /\ Throw /\ UNCHANGED <<pkgVersion, publishedPackages, tasks>>
    /\ UNCHANGED <<inputsV, diskV, hostV, stdout, changelog, releases, bodyV, outputs,
                   log, returned>>

\* a variant whose catch swallows every changelog failure
ReleaseOutcomeSwallowsAll(file, version) ==
    IF ~file.exists THEN "absent"
    ELSE IF ~(version \in file.versions) THEN "absent"
    ELSE "release"
\* what one createRelease call does with the changelog it read: "absent"
\* (ENOENT, swallowed), "throw" (no entry for the version), "release"
ReleaseOutcome(file, version) ==
    IF ~file.exists THEN "absent"
    ELSE IF ~getChangelogEntry(file, version).found THEN "throw"
    ELSE "release"

\* prerelease: pkg.packageJson.version.includes("-")
Prerelease(version) == includes(version, "-")

\* one createRelease call of the Promise.all, from its readFile to its end
CreateRelease(i) ==
    /\ i \in 1..Len(tasks)
    /\ tasks[i] = "pending"
    /\ LET p == publishedPackages[i]
       IN \E file \in ChangelogFiles, ok \in BOOLEAN :
            /\ changelog[p].read => file = changelog[p]
            /\ changelog' = [changelog EXCEPT ![p] = file]
            /\ LET o == ReleaseOutcome(file, pkgVersion[p])
               IN  /\ o # "release" => ok
                   /\ IF o = "release" /\ ok
                      THEN releases' = Append(releases,
                               [name |-> tagName(p, pkgVersion[p]),
                                tag_name |-> tagName(p, pkgVersion[p]),
                                pkg |-> p,
                                prerelease |-> Prerelease(pkgVersion[p])])
                      ELSE releases' = releases
                   /\ tasks' = [tasks EXCEPT ![i] =
                          CASE o = "absent" -> "absent"
                            [] o = "throw" -> "threw"
                            [] o = "release" /\ ok -> "created"
                            [] OTHER -> "threw"]
    /\ UNCHANGED <<inputsV, diskV, hostV, stdout, pkgVersion, publishedPackages, bodyV,
                   outputs, log, returned, pc, failed>>

CreateReleases == \E i \in 1..Len(tasks) : CreateRelease(i)

\* await Promise.all(...): rejects with the first rejection, resolves when
\* every call has resolved
AwaitReleases ==
    /\ pc = "p_releases"
    /\ IF \E i \in 1..Len(tasks) : tasks[i] = "threw"
       THEN Throw
       ELSE /\ \A i \in 1..Len(tasks) : tasks[i] # "pending"
            /\ pc' = "p_result" /\ failed' = failed
    /\ UNCHANGED <<inputsV, diskV, hostV, pubV, bodyV, outputs, log, returned>>

\* the PublishResult
PublishResult(pkgs, version) ==
    IF Len(pkgs) # 0
    THEN [NoReturn EXCEPT !.kind = "publish", !.published = TRUE,
                          !.publishedPackages =
                              [i \in 1..Len(pkgs) |->
                                  [name |-> pkgs[i], version |-> version[pkgs[i]]]]]
    ELSE [NoReturn EXCEPT !.kind = "publish"]

ReturnPublish ==
    /\ pc = "p_result"
    /\ returned' = PublishResult(publishedPackages, pkgVersion)
    /\ pc' = "m_afterPublish"
    /\ UNCHANGED <<inputsV, diskV, hostV, pubV, bodyV, outputs, log, failed>>

(* ------------------------- the specifications ------------------------- *)
RunVersionNext ==
    \/ VReadState \/ Switch \/ Reset \/ ChangesetVersion \/ Bump \/ Install
    \/ Dedupe \/ SendSearch \/ SearchAnswers \/ Commit \/ Push \/ AwaitSearch
    \/ Body \/ CreateOrUpdate

RunPublishNext ==
    \/ GetTool \/ YarnConfig \/ YarnVersion \/ Publish \/ ParseOutput
    \/ CreateReleases \/ AwaitReleases \/ ReturnPublish \/ PublishReturned

\* one invocation of the action
Next ==
    \/ CheckGithubToken \/ SetupUser \/ WriteNetrc \/ ReadState \/ Decide
    \/ RunVersionNext \/ VersionReturned
    \/ RunPublishNext

Spec == Init /\ [][Next]_vars

\* one invocation with src/index.ts as the entry script
NextIndex ==
    \/ CheckGithubToken \/ SetupUser \/ WriteNetrc \/ ReadState \/ DecideIndex
    \/ RunVersionNext \/ VersionReturnedIndex
    \/ RunPublishNext

SpecIndex == Init /\ [][NextIndex]_vars

\* getVersionPrBody alone, over its arguments
BranchLens == {BranchLen, 30}
Budgets == {k * BudgetUnit : k \in 0..MaxBudgetUnits} \cup {MAX_CHARACTERS_PER_MESSAGE}
Infos == SeqsUpTo({PkgInfo(PkgNames[n], u) : n \in 1..2, u \in 0..MaxContentUnits}, MaxPkgs)

InitBody ==
    /\ pc = "body"
    /\ githubToken = TRUE /\ npmToken = TRUE
    /\ bodyIn \in [called : {FALSE}, autoPublish : BOOLEAN, pre : BOOLEAN, info : Infos,
                   prBodyMaxCharacters : Budgets, branchLen : BranchLens]
    /\ disk = NoDisk
    /\ InitCommon

CallGetVersionPrBody ==
    /\ pc = "body"
    /\ ~bodyIn.called
    /\ bodyIn' = [bodyIn EXCEPT !.called = TRUE]
    /\ bodyOut' = getVersionPrBody(bodyIn.autoPublish, bodyIn.pre, bodyIn.info,
                                   bodyIn.prBodyMaxCharacters, bodyIn.branchLen)
    /\ UNCHANGED <<inputsV, diskV, hostV, pubV, outputs, log, returned, pc, failed>>

NextBody == CallGetVersionPrBody

SpecBody == InitBody /\ [][NextBody]_vars

\* The entry script up to its routing, over every .changeset directory.
InitRead ==
    /\ pc = "start"
    /\ githubToken \in BOOLEAN
    /\ npmToken \in BOOLEAN
    /\ disk \in Disks
    /\ bodyIn = NoBodyIn
    /\ InitCommon

NextRead ==
    \/ CheckGithubToken
    \/ SetupUser
    \/ WriteNetrc
    \/ ReadDisk
    \/ Decide

SpecRead == InitRead /\ [][NextRead]_vars

\* Runs of the workflow one after the other on the same base branch, against
\* a host whose search answers with the pull requests that are open. The
\* repository starts without a release pull request.
InitSeq ==
    /\ pc = "start"
    /\ githubToken \in BOOLEAN
    /\ npmToken \in BOOLEAN
    /\ disk = NoDisk
    /\ bodyIn = NoBodyIn
    /\ search = "none" /\ items = <<>> /\ prCalls = <<>>
    /\ openPRs = <<>>
    /\ hostSeen = TRUE
    /\ setupGitUser = FALSE /\ autoPublish = FALSE /\ dedupe = FALSE
    /\ createGithubReleases = FALSE
    /\ changesetState = [preState |-> NoPreState, changesets |-> <<>>]
    /\ changesets = <<>>
    /\ preState = NoPreState
    /\ clean = "unknown"
    /\ failed = FALSE
    /\ outputs = NoOutputs
    /\ log = <<>>
    /\ returned = NoReturn
    /\ stdout = <<>>
    /\ pkgVersion = [p \in Packages |-> <<>>]
    /\ changelog = [p \in Packages |-> Unread]
    /\ publishedPackages = <<>>
    /\ tasks = <<>>
    /\ releases = <<>>
    /\ bodyOut = <<>>

\* The previous run is over and the next push starts a new process: nothing
\* of the old one is left but the pull requests on the host, which somebody
\* may have merged or closed in between.
NewInvocation ==
    /\ pc = "done"
    /\ \A i \in 1..Len(tasks) : tasks[i] # "pending"
    /\ pc' = "start"
    /\ githubToken' \in BOOLEAN
    /\ npmToken' \in BOOLEAN
    /\ \E merged \in BOOLEAN : openPRs' = IF merged THEN <<>> ELSE openPRs
    /\ hostSeen' = TRUE
    /\ search' = "none" /\ items' = <<>> /\ prCalls' = <<>>
    /\ disk' = NoDisk
    /\ bodyIn' = NoBodyIn /\ bodyOut' = <<>>
    /\ setupGitUser' = FALSE /\ autoPublish' = FALSE /\ dedupe' = FALSE
    /\ createGithubReleases' = FALSE
    /\ changesetState' = [preState |-> NoPreState, changesets |-> <<>>]
    /\ changesets' = <<>>
    /\ preState' = NoPreState
    /\ clean' = "unknown"
    /\ failed' = FALSE
    /\ outputs' = NoOutputs
    /\ log' = <<>>
    /\ returned' = NoReturn
    /\ stdout' = <<>>
    /\ pkgVersion' = [p \in Packages |-> <<>>]
    /\ changelog' = [p \in Packages |-> Unread]
    /\ publishedPackages' = <<>>
    /\ tasks' = <<>>
    /\ releases' = <<>>

NextSeq ==
    \/ Next
    \/ NewInvocation

SpecSeq == InitSeq /\ [][NextSeq]_vars


(* ------------------------------ vocabulary ---------------------------- *)
VersionPcs == {"v_readState", "v_switch", "v_reset", "v_versions", "v_bump",
               "v_install", "v_dedupe", "v_search", "v_clean", "v_push", "v_await",
               "v_body", "v_pr", "m_afterVersion"}
PublishPcs == {"p_getPackages", "p_config", "p_yarnVersion", "p_publish", "p_parse",
               "p_releases", "p_result", "m_afterPublish"}

\* git commands and pull request calls of runVersion
VersionEffects == {"switch", "reset", "version", "install", "dedupe", "commit", "push",
                   "create", "update"}
PublishEffects == {"yarnConfig", "publish"}

RECURSIVE Only(_, _)
Only(s, S) ==
    IF s = <<>> THEN <<>>
    ELSE IF Head(s) \in S THEN <<Head(s)>> \o Only(Tail(s), S) ELSE Only(Tail(s), S)

IsPrefix(s, t) == Len(s) <= Len(t) /\ \A i \in 1..Len(s) : s[i] = t[i]

Decided == outputs.hasChangesets # "unset"
\* the invocation is over: the entry script has returned or failed, and no
\* createRelease call is still running
Finished == pc = "done" /\ \A i \in 1..Len(tasks) : tasks[i] # "pending"

VersionEntered ==
    \/ pc \in VersionPcs
    \/ returned.kind = "version"
    \/ search # "none"
    \/ Range(log) \cap VersionEffects # {}
    \/ prCalls # <<>>

PublishEntered ==
    \/ pc \in PublishPcs
    \/ returned.kind = "publish"
    \/ Range(log) \cap PublishEffects # {}

(* ------------------------------- claims ------------------------------- *)

\* C1: with GITHUB_TOKEN set, runVersion (branch switch, version bump, push,
\* PR create/update) is entered if and only if some pending changeset has a
\* release; with only empty changesets no git command runs and no PR is
\* created or updated.
C1_ReleasePathIffNonEmpty ==
    /\ VersionEntered => hasNonEmptyChangesets(changesets)
    /\ (githubToken /\ Decided /\ hasNonEmptyChangesets(changesets))
          => (~PublishEntered /\ (pc = "done" /\ ~failed => returned.kind = "version"))

\* C2: runPublish is invoked only when the list of pending changesets is
\* empty and autoPublish is true; never together with the release-PR path,
\* never when changesets exist (even if all of them are empty).
C2_PublishOnlyWithoutChangesets ==
    PublishEntered =>
        /\ Len(changesets) = 0
        /\ autoPublish
        /\ npmToken
        /\ ~VersionEntered

C2_Witness ==
    /\ pc = "done"
    /\ "publish" \in Range(log)
    /\ outputs.hasChangesets = "false"

FixedLen(in) ==
    (IF in.autoPublish THEN LenHeaderAuto ELSE LenHeaderManual) + in.branchLen
    + 1 + (IF in.pre THEN LenPrestate + 2 * in.branchLen ELSE 0)
    + 1 + LenReleasesHeading
FullLen(in) ==
    FixedLen(in)
    + SeqSum([i \in 1..Len(in.info) |-> 1 + in.info[i].headerLen + 2 + in.info[i].contentLen])
HeadersLen(in) ==
    FixedLen(in) + 1 + LenOmittedChangelog
    + SeqSum([i \in 1..Len(in.info) |-> 1 + in.info[i].headerLen + 2])
NoticeLen(in) == FixedLen(in) + 1 + LenOmittedAll

Kinds(m) == [i \in 1..Len(m) |-> m[i].kind]
Preamble == <<"messageHeader", "messagePrestate", "messageReleasesHeading">>

\* C4 (as claimed): the body returned by getVersionPrBody is never longer
\* than prBodyMaxCharacters.
C4_WithinBudget ==
    bodyIn.called => JoinLen(bodyOut) <= bodyIn.prBodyMaxCharacters

\* C4 (amended): the body is never longer than prBodyMaxCharacters unless it
\* is the notice-only message, so its length is at most the larger of
\* prBodyMaxCharacters and the length of the notice-only message.
C4_WithinBudgetOrNotice ==
    bodyIn.called =>
        /\ JoinLen(bodyOut) <= Max({bodyIn.prBodyMaxCharacters, NoticeLen(bodyIn)})
        /\ JoinLen(bodyOut) > bodyIn.prBodyMaxCharacters =>
              Kinds(bodyOut) = Preamble \o <<"omittedAll">>

C4_Witness ==
    /\ pc = "body"
    /\ bodyIn.called
    /\ Len(bodyIn.info) = 2
    /\ FullLen(bodyIn) > bodyIn.prBodyMaxCharacters
    /\ HeadersLen(bodyIn) > bodyIn.prBodyMaxCharacters
    /\ Kinds(bodyOut) = Preamble \o <<"omittedAll">>
    /\ JoinLen(bodyOut) <= bodyIn.prBodyMaxCharacters

\* C5: three tiers. The full message (intro, pre-mode warning, "# Releases",
\* then header and content of each package in input order) when it fits;
\* otherwise the omission notice and every package header without content
\* when that fits; otherwise a single notice and no package at all. The full
\* form is returned exactly when its length is at most prBodyMaxCharacters.
C5_ThreeTiers ==
    bodyIn.called =>
        LET in == bodyIn
            n == Len(in.info)
            max == in.prBodyMaxCharacters
            isFull == /\ Kinds(bodyOut) = Preamble \o [i \in 1..n |-> "headerAndContent"]
                      /\ \A i \in 1..n :
                            /\ bodyOut[3 + i].pkg = in.info[i].name
                            /\ bodyOut[3 + i].len =
                                  in.info[i].headerLen + 2 + in.info[i].contentLen
                      /\ JoinLen(bodyOut) = FullLen(in)
            isHeaders == /\ Kinds(bodyOut) = Preamble \o <<"omittedChangelog">>
                                             \o [i \in 1..n |-> "headerOnly"]
                         /\ \A i \in 1..n :
                               /\ bodyOut[4 + i].pkg = in.info[i].name
                               /\ bodyOut[4 + i].len = in.info[i].headerLen + 2
                         /\ JoinLen(bodyOut) = HeadersLen(in)
            isNotice == /\ Kinds(bodyOut) = Preamble \o <<"omittedAll">>
                        /\ JoinLen(bodyOut) = NoticeLen(in)
        IN  /\ bodyOut[1] = messageHeader(in.autoPublish, in.branchLen)
            /\ bodyOut[2] = messagePrestate(in.pre, in.branchLen)
            /\ FullLen(in) <= max => isFull
            /\ (FullLen(in) > max /\ HeadersLen(in) <= max) => isHeaders
            /\ (FullLen(in) > max /\ HeadersLen(in) > max) => isNotice
            /\ isFull <=> FullLen(in) <= max

C5_Witness ==
    /\ pc = "body"
    /\ bodyIn.called
    /\ Len(bodyIn.info) = 2
    /\ bodyIn.info[1].name = "b" /\ bodyIn.info[2].name = "a"
    /\ FullLen(bodyIn) > bodyIn.prBodyMaxCharacters
    /\ Kinds(bodyOut) = Preamble \o <<"omittedChangelog", "headerOnly", "headerOnly">>

\* the packages the publish command reported as published and runPublish found
PublishingHappened == publishedPackages # <<>>

\* C6: at the end of an invocation the `published` output is "true" exactly
\* when publishing happened, also when a later step (a GitHub release) fails.
C6_PublishedOutputIffPublished ==
    Finished => (outputs.published = "true" <=> PublishingHappened)

ReleasesOf(p) == {i \in 1..Len(releases) : releases[i].pkg = p}

\* C7: with createGithubReleases, one release-creation call per matched
\* package and never two for the same package, with tag <name>@<version>;
\* without it, none; publishedPackages lists each matched package once.
C7_OneReleasePerPackage ==
    /\ \A p \in Packages : Cardinality(ReleasesOf(p)) <= 1
    /\ \A i \in 1..Len(releases) :
          releases[i].tag_name = <<releases[i].pkg, "@", pkgVersion[releases[i].pkg]>>
    /\ ~createGithubReleases => releases = <<>>
    /\ \A i, j \in 1..Len(returned.publishedPackages) :
          returned.publishedPackages[i].name = returned.publishedPackages[j].name => i = j

Index(s, e) == Min({i \in 1..Len(s) : s[i] = e})

\* C8 (as claimed): the search for the open PR is sent only after the
\* release branch has been pushed.
C8_SearchSentAfterPush ==
    search # "none" => "push" \in Range(log)

\* C8 (amended): the search request is sent before the push, and its result
\* is awaited and read only after the push of the release branch completed.
C8_SearchReadAfterPush ==
    /\ (search = "read" \/ prCalls # <<>>) =>
          /\ "push" \in Range(log)
          /\ Index(log, "search") < Index(log, "push")
    /\ "push" \in Range(log) => search # "none"

C8_Witness ==
    /\ pc = "v_body"
    /\ search = "read"
    /\ Len(items) = 1
    /\ "push" \in Range(log)

\* C9: runVersion's steps come in the order switch, reset, version bump,
\* lockfile, dedupe (only with the option), commit (only when the tree is
\* not clean), force-push, then PR create/update; a step that throws ends
\* the run, so no PR is created or updated unless the push succeeded.
C9_StepOrder ==
    /\ \E op \in {"create", "update"} :
          IsPrefix(Only(log, VersionEffects),
                   <<"switch", "reset", "version", "install">>
                   \o (IF dedupe THEN <<"dedupe">> ELSE <<>>)
                   \o (IF clean = "dirty" THEN <<"commit">> ELSE <<>>)
                   \o <<"push", op>>)
    /\ failed => pc = "done"
    /\ Len(prCalls) = Cardinality({i \in 1..Len(log) : log[i] \in {"create", "update"}})
    /\ (pc \in {"v_await", "v_body", "v_pr", "m_afterVersion"} \/ prCalls # <<>>)
          => "push" \in Range(log)
    /\ (pc \in VersionPcs /\ pc \notin {"v_readState", "v_switch", "v_reset", "v_versions",
                                        "v_bump", "v_install", "v_dedupe"} /\ dedupe)
          => "dedupe" \in Range(log)

C9_Witness ==
    /\ pc = "done" /\ ~failed
    /\ dedupe /\ clean = "dirty"
    /\ Only(log, VersionEffects) =
          <<"switch", "reset", "version", "install", "dedupe", "commit", "push", "create">>

\* C10: createRelease makes no release and raises nothing when CHANGELOG.md
\* does not exist, and the publish still succeeds; it raises an error that
\* fails runPublish and the action when the file has no entry for the
\* version; a release is a prerelease exactly when the version contains "-".
C10_ChangelogFailures ==
    /\ \A i \in 1..Len(tasks) :
          LET p == publishedPackages[i]
              file == changelog[p]
              missingEntry == file.exists /\ pkgVersion[p] \notin file.versions
          IN  tasks[i] # "pending" =>
                /\ file.read
                /\ ~file.exists => (tasks[i] = "absent" /\ ReleasesOf(p) = {})
                /\ missingEntry => (tasks[i] = "threw" /\ ReleasesOf(p) = {})
                /\ tasks[i] = "created" => ReleasesOf(p) # {}
    /\ (\E i \in 1..Len(tasks) : tasks[i] = "threw") =>
          /\ pc \in {"p_releases", "done"}
          /\ returned.kind = "none"
          /\ outputs.published = "false"
          /\ pc = "done" => failed
    /\ (Finished /\ tasks # <<>> /\ \A i \in 1..Len(tasks) : tasks[i] \in {"absent", "created"})
          => (~failed /\ returned.published /\ outputs.published = "true")
    /\ \A i \in 1..Len(releases) :
          releases[i].prerelease <=> "-" \in Range(pkgVersion[releases[i].pkg])

C10_Witness ==
    /\ Finished /\ ~failed
    /\ \E i \in 1..Len(tasks) : tasks[i] = "absent"
    /\ \E i \in 1..Len(releases) : releases[i].prerelease
    /\ outputs.published = "true"

\* C11: missing credentials fail the action before any effect they guard.
\* Without GITHUB_TOKEN the action is marked failed and nothing else happens
\* (no git user setup, no .netrc, no changesets read, no output set, no
\* version or publish run); with no changesets, autoPublish and no NPM_TOKEN
\* the action is marked failed, the publish command is never invoked,
\* `published` stays "false" and `publishedPackages` stays "[]".
C11_MissingCredentials ==
    /\ ~githubToken =>
          /\ pc \in {"start", "done"}
          /\ pc = "done" <=> failed
          /\ log = <<>>
          /\ outputs = NoOutputs
          /\ changesets = <<>> /\ changesetState = [preState |-> NoPreState, changesets |-> <<>>]
          /\ ~VersionEntered /\ ~PublishEntered
          /\ releases = <<>> /\ prCalls = <<>>
    /\ (githubToken /\ Decided /\ Len(changesets) = 0 /\ autoPublish /\ ~npmToken) =>
          /\ pc = "done" /\ failed
          /\ ~PublishEntered
          /\ "publish" \notin Range(log)
          /\ outputs.published = "false"
          /\ outputs.publishedPackages = [set |-> TRUE, json |-> <<>>]

C11_Witness ==
    /\ pc = "done" /\ failed
    /\ githubToken /\ ~npmToken
    /\ Decided /\ autoPublish
    /\ outputs.hasChangesets = "false"
    /\ outputs.published = "false"

\* the read has answered
ReadDone == pc = "m_decide" \/ Decided
\* positions of the on-disk changesets the pre state does not list
Unrecorded ==
    {i \in 1..Len(disk.changesets) : disk.changesets[i].id \notin disk.preState.changesets}

\* C12: readChangesetState returns a preState exactly when the pre state on
\* disk has mode "pre"; then the returned changesets are the on-disk ones
\* whose id the pre state does not list, in their order; otherwise they are
\* all the on-disk changesets and preState is undefined. An invocation in pre
\* mode whose changesets are all recorded is treated as having no changesets.
C12_PreModeFilter ==
    ReadDone =>
        LET onDiskPre == disk.preState.mode = "pre"
            got == changesetState.changesets
        IN  /\ (changesetState.preState # NoPreState) <=> onDiskPre
            /\ onDiskPre =>
                  /\ changesetState.preState = disk.preState
                  /\ Range(got) = {disk.changesets[i] : i \in Unrecorded}
                  /\ Len(got) = Cardinality(Unrecorded)
                  /\ \A i, j \in 1..Len(got) :
                        i < j => \E k, l \in Unrecorded :
                                    /\ k < l
                                    /\ got[i] = disk.changesets[k]
                                    /\ got[j] = disk.changesets[l]
            /\ ~onDiskPre =>
                  /\ changesetState.preState = NoPreState
                  /\ got = disk.changesets
            /\ changesets = got
            /\ (onDiskPre /\ Unrecorded = {} /\ Decided) =>
                  /\ outputs.hasChangesets = "false"
                  /\ ~VersionEntered
                  /\ autoPublish /\ npmToken <=> pc = "p_getPackages"

C12_Witness ==
    /\ Decided
    /\ disk.preState.mode = "pre"
    /\ Len(disk.changesets) = MaxChangesets
    /\ \A i \in 1..Len(disk.changesets) : disk.changesets[i].releases > 0
    /\ Unrecorded = {}
    /\ outputs.hasChangesets = "false"
    /\ pc = "p_getPackages"

\* C13: over runs one after the other on the same base branch, with the
\* search answering with the open pull requests, at most one release pull
\* request is open for head changeset-release/<branch> and base <branch>: a
\* run creates one only when the search found none open, and otherwise
\* updates the one that is open.
C13_AtMostOneReleasePR ==
    /\ Len(openPRs) <= 1
    /\ Len(prCalls) <= 1
    /\ search \in {"answered", "read"} => items = openPRs \/ prCalls # <<>>
    /\ \A i \in 1..Len(prCalls) :
          LET c == prCalls[i]
          IN  /\ c.op = "create" =>
                    /\ items = <<>>
                    /\ c.head = versionBranch /\ c.base = branch
                    /\ openPRs = <<c.number>>
              /\ c.op = "update" =>
                    /\ items = <<c.number>>
                    /\ openPRs = items

C13_Witness ==
    /\ Finished /\ ~failed
    /\ Len(prCalls) = 1 /\ prCalls[1].op = "update"
    /\ openPRs = <<prCalls[1].number>>
    /\ outputs.pullRequestNumber = [set |-> TRUE, str |-> prCalls[1].number]

====
